---- MODULE Spec2Model ----
(***************************************************************************)
(* State-machine model of pele_analysis/_msm_clustering.py: the class      *)
(* ligand_msm (construction, addFeature, getFeaturesData, calculateTICA,   *)
(* the TICA plots, getMetricData and the plotFreeEnergy cascade).          *)
(*                                                                         *)
(* Python dictionaries are functions whose DOMAIN is the set of keys that  *)
(* are present ( <<>> is the empty dictionary), Python lists are           *)
(* sequences.  A numpy array is represented by its shape: a record with    *)
(* rows and cols (and, for a TICA output, the lag of the fit that made     *)
(* it).  An exception is the err field of the call record lastCall; the    *)
(* assignments a method made before it raised are kept, as in Python.      *)
(***************************************************************************)
EXTENDS Naturals, Sequences, FiniteSets, TLC

\* ----------------------------------------------------------------- bounds
\* Largest number of trajectory files of one (protein, ligand) pair.
MaxTraj == 2
\* Frames in one trajectory file.
Frames == 3
\* Largest lag time passed to calculateTICA.
MaxLag == 2
\* Largest number of components a TICA fit retains.
MaxDim == 2
\* Number of state-changing calls (addFeature, getFeaturesData,
\* calculateTICA) made on one object.
MaxCalls == 4
\* Atoms of a ligand topology (3 coordinates each).
NAtoms == 1

\* ------------------------------------------------- the analysis object
\* pele_analysis.proteins, in iteration order.
proteins == <<"P1", "P2">>

Proteins == {proteins[i] : i \in DOMAIN proteins}

Ligands == {"L1", "L2"}

\* pele_analysis.data.keys(): the columns of the results table.  A name is
\* a sequence of tokens, so that a prefix test is a test on its head.
Columns == << <<"Binding Energy">>, <<"metric_", "distance">> >>

\* Values of the Trajectory index level.
TrajIds == 1..MaxTraj

ErrNone == "None"

VARIABLES
    pele_combinations,  \* pele_analysis.pele_combinations: set of <<protein, ligand>>
    table,              \* pele_analysis.data: rows per <<protein, ligand, trajectory>>
    trajectories,       \* self.trajectories: pair -> list of files (each its frame count)
    features,           \* self.features: ligand -> set of selections added to the featurizer
    metric_features,    \* self.metric_features
    data,               \* self.data
    all_data,           \* self.all_data
    all_tica,           \* self.all_tica
    all_tica_output,    \* self.all_tica_output
    all_tica_concatenated, \* self.all_tica_concatenated
    tica_output,        \* self.tica_output
    tica_concatenated,  \* self.tica_concatenated
    ndims,              \* self.ndims (0: the attribute is not set yet)
    ncalls,             \* state-changing calls made so far
    lastCall,           \* the call made last: its arguments and the error it raised
    ret                 \* the value getMetricData returned last

inputs == <<pele_combinations, table, trajectories>>

ticaVars == <<all_tica, all_tica_output, all_tica_concatenated, tica_output,
              tica_concatenated, ndims>>

vars == <<pele_combinations, table, trajectories, features, metric_features, data,
          all_data, all_tica, all_tica_output, all_tica_concatenated, tica_output,
          tica_concatenated, ndims, ncalls, lastCall, ret>>

\* ---------------------------------------------------------------- helpers
Min(a, b) == IF a < b THEN a ELSE b

\* str.startswith on a tokenised name.
StartsWith(name, prefix) == Len(name) >= 1 /\ name[1] = prefix

\* dict[key] = value
Put(dict, key, value) == (key :> value) @@ dict

RECURSIVE SumRows(_)
\* Row count of np.concatenate(arrays) (axis 0).
SumRows(arrays) ==
    IF arrays = <<>> THEN 0 ELSE Head(arrays).rows + SumRows(Tail(arrays))

RECURSIVE SortedSeq(_)
\* The elements of a set of numbers in increasing order.
SortedSeq(S) ==
    IF S = {} THEN <<>>
    ELSE LET m == CHOOSE x \in S : \A y \in S : x <= y
         IN <<m>> \o SortedSeq(S \ {m})

\* The call record: the operation, its arguments, the error it raised, the
\* values of the error's message and, for calculateTICA, the lag of the fit
\* of that ligand it replaced (0: there was none).
Call(op, ligand, protein, name, num, err) ==
    [op |-> op, ligand |-> ligand, protein |-> protein, name |-> name,
     num |-> num, err |-> err, msg |-> <<>>, over |-> 0]

\* ------------------------------------------------------------ the table
\* The metric columns: for m in data.keys(): if m.startswith('metric_').
MetricColumns ==
    SelectSeq(Columns, LAMBDA m : StartsWith(m, "metric_"))

\* ligand_data.index.levels[3]: the levels of a filtered MultiIndex are those
\* of the whole table, whatever ligand the rows were filtered by.
TrajectoryLevels ==
    SortedSeq({t \in TrajIds : \E p \in Proteins, l \in Ligands : table[<<p, l, t>>] > 0})

\* Rows of the table with the given Ligand, Protein and Trajectory.
TableRows(ligand, protein, trajectory) ==
    IF protein \in Proteins /\ ligand \in Ligands
    THEN table[<<protein, ligand, trajectory>>] ELSE 0

\* The trajectories the table holds for one pair.
PairTrajectories(ligand, protein) ==
    SortedSeq({t \in TrajIds : TableRows(ligand, protein, t) > 0})

\* ----------------------------------------------------------- construction
\* The proteins combined with a ligand in a set of combinations.
ProteinsOf(c, ligand) == {p \in Proteins : <<p, ligand>> \in c}

\* The sets of combinations tried: every protein and every ligand of the
\* analysis is in some combination.  Up to a renaming of the ligands, "L1"
\* is combined with the first protein and with as many proteins as "L2".
CombinationSets ==
    {c \in SUBSET (Proteins \X Ligands) :
        /\ ProteinsOf(c, "L1") \cup ProteinsOf(c, "L2") = Proteins
        /\ ProteinsOf(c, "L2") # {}
        /\ proteins[1] \in ProteinsOf(c, "L1")
        /\ Cardinality(ProteinsOf(c, "L1")) >= Cardinality(ProteinsOf(c, "L2"))}

\* No pair.
NoPair == <<>>

\* The pairs that may be short or have lost a row: none, or (when every
\* protein is combined with every ligand) one pair of "L1".
Perturbed(c) ==
    {NoPair} \cup {pl \in c : pl[2] = "L1" /\ c = Proteins \X Ligands}

\* The state __init__ leaves: one trajectory list per combination, one
\* featurizer per ligand, every other mapping empty.  Every pair has MaxTraj
\* trajectory files of Frames frames each, but for at most one pair (short)
\* that has one file fewer; the table holds the frames of the same
\* trajectories, but for at most one pair (lost) whose first trajectory has
\* lost a row in the table.
Init ==
    \E c \in CombinationSets :
    \E short \in Perturbed(c) :
    \E lost \in Perturbed(c) :
    LET n == [pl \in c |-> IF pl = short THEN MaxTraj - 1 ELSE MaxTraj]
    IN  /\ short = NoPair \/ lost = NoPair
        /\ pele_combinations = c
        /\ trajectories = [pl \in c |-> [t \in 1..n[pl] |-> Frames]]
        /\ table = [k \in Proteins \X Ligands \X TrajIds |->
                       IF <<k[1], k[2]>> \in c /\ k[3] <= n[<<k[1], k[2]>>]
                       THEN (IF <<k[1], k[2]>> = lost /\ k[3] = 1
                             THEN Frames - 1 ELSE Frames)
                       ELSE 0]
        /\ features = [l \in Ligands |-> {}]
        /\ metric_features = <<>>
        /\ data = <<>>
        /\ all_data = <<>>
        /\ all_tica = <<>>
        /\ all_tica_output = <<>>
        /\ all_tica_concatenated = <<>>
        /\ tica_output = <<>>
        /\ tica_concatenated = <<>>
        /\ ndims = 0
        /\ ncalls = 0
        /\ lastCall = Call("__init__", "-", "-", <<>>, 0, ErrNone)
        /\ ret = <<>>

\* The inputs are the regular ones: every protein combined with every
\* ligand, every pair with MaxTraj trajectories, the table complete.
Regular ==
    /\ pele_combinations = Proteins \X Ligands
    /\ \A k \in DOMAIN table : table[k] = Frames

\* State-changing calls explored on one object: MaxCalls on regular inputs,
\* one fewer on the others.
CallBudget == IF Regular THEN MaxCalls ELSE MaxCalls - 1

\* ------------------------------------------------------------- addFeature
\* Mutant: a third feature name is accepted.
implemented_features_plus == <<"positions", "metrics", "velocities">>

\* implemented_features = ['positions', 'metrics']
implemented_features == <<"positions", "metrics">>

\* The feature arguments tried.
FeatureArgs == {"positions", "metrics", "velocities"}

\* feature not in implemented_features
NotImplemented(feature) ==
    \A i \in DOMAIN implemented_features : implemented_features[i] # feature

\* 'Feature %s not implemented. try: %s' % (feature, implemented_features):
\* the values the message is formatted from.
NotImplementedMessage(feature) == <<feature>> \o implemented_features

\* trajectory_data[metrics].to_numpy() for each trajectory level: one array
\* (rows of that trajectory, one column per metric) per level.
MetricArrays(ligand, protein) ==
    [i \in 1..Len(TrajectoryLevels) |->
        [rows |-> TableRows(ligand, protein, TrajectoryLevels[i]),
         cols |-> Len(MetricColumns)]]

\* The list metric_features[ligand][protein] the loop appends to: created
\* empty only when the key is absent.
MetricList(ligand, protein) ==
    IF ligand \in DOMAIN metric_features THEN metric_features[ligand][protein] ELSE <<>>

\* metric_features[ligand] after the loop over the proteins.
AddMetricFeatures(ligand) ==
    [p \in Proteins |-> MetricList(ligand, p) \o MetricArrays(ligand, p)]

addFeature(feature, ligand) ==
    IF NotImplemented(feature)
    THEN /\ lastCall' = [Call("addFeature", ligand, "-", <<feature>>, 0, "ValueError")
                           EXCEPT !.msg = NotImplementedMessage(feature)]
         /\ UNCHANGED <<inputs, features, metric_features, data, all_data, ticaVars,
                        ncalls, ret>>
    ELSE /\ ncalls < CallBudget
         /\ ncalls' = ncalls + 1
         /\ features' = IF feature = "positions"
                        THEN [features EXCEPT ![ligand] = @ \cup {"all"}]
                        ELSE features
         /\ metric_features' = IF feature = "metrics"
                               THEN Put(metric_features, ligand, AddMetricFeatures(ligand))
                               ELSE metric_features
         /\ lastCall' = Call("addFeature", ligand, "-", <<feature>>, 0, ErrNone)
         /\ UNCHANGED <<inputs, data, all_data, ticaVars, ret>>

\* -------------------------------------------------------- getFeaturesData
\* Columns the featurizer yields: the Cartesian coordinates of every atom
\* (the selection 'all'; a featurizer without a selection yields the same).
FeatureCols(ligand) == 3 * NAtoms

\* pyemma.coordinates.load(self.trajectories[(protein, ligand)], features):
\* one array per trajectory file, frames x feature columns.
Load(protein, ligand) ==
    [t \in 1..Len(trajectories[<<protein, ligand>>]) |->
        [rows |-> trajectories[<<protein, ligand>>][t], cols |-> FeatureCols(ligand)]]

\* Mutant: the assertion is not made.
SameFramesUnchecked(metric, feature) == TRUE

\* assert metric.shape[0] == feature.shape[0]
SameFrames(metric, feature) == metric.rows = feature.rows

\* np.concatenate([feature, metric], axis=1)
ConcatColumns(feature, metric) ==
    [rows |-> feature.rows, cols |-> feature.cols + metric.cols]

RECURSIVE AddMetrics(_, _, _)
\* for t in range(len(metrics)): assert ...; arrays[t] = concatenate(...).
\* arrays[t] of a list that is too short raises IndexError.
AddMetrics(arrays, metrics, t) ==
    IF t > Len(metrics) THEN [arrays |-> arrays, err |-> ErrNone]
    ELSE IF t > Len(arrays) THEN [arrays |-> arrays, err |-> "IndexError"]
    ELSE IF ~SameFrames(metrics[t], arrays[t])
         THEN [arrays |-> arrays, err |-> "AssertionError"]
    ELSE AddMetrics([arrays EXCEPT ![t] = ConcatColumns(arrays[t], metrics[t])],
                    metrics, t + 1)

RECURSIVE LoadProteins(_, _, _)
\* for protein in self.pele_analysis.proteins: ...  st holds data[ligand],
\* all_data[ligand] and the error raised, if any, which ends the loop.
LoadProteins(ps, ligand, st) ==
    IF ps = <<>> \/ st.err # ErrNone THEN st
    ELSE LET p == Head(ps) IN
         IF <<p, ligand>> \notin DOMAIN trajectories
         THEN [st EXCEPT !.err = "KeyError"]
         ELSE LET r == IF ligand \in DOMAIN metric_features
                       THEN AddMetrics(Load(p, ligand), metric_features[ligand][p], 1)
                       ELSE [arrays |-> Load(p, ligand), err |-> ErrNone]
              IN IF r.err # ErrNone
                 THEN [data |-> Put(st.data, p, r.arrays), all |-> st.all, err |-> r.err]
                 ELSE LoadProteins(Tail(ps), ligand,
                                   [data |-> Put(st.data, p, r.arrays),
                                    all |-> st.all \o r.arrays, err |-> ErrNone])

\* The list all_data[ligand] the loop appends to.
PooledList(ligand) ==
    IF ligand \in DOMAIN all_data THEN all_data[ligand] ELSE <<>>

getFeaturesData(ligand) ==
    LET r == LoadProteins(proteins, ligand,
                          [data |-> IF ligand \in DOMAIN data THEN data[ligand] ELSE <<>>,
                           all |-> PooledList(ligand), err |-> ErrNone])
    IN /\ ncalls < CallBudget
       /\ ncalls' = ncalls + 1
       /\ data' = Put(data, ligand, r.data)
       /\ all_data' = Put(all_data, ligand, r.all)
       /\ lastCall' = Call("getFeaturesData", ligand, "-", <<>>, 0, r.err)
       /\ UNCHANGED <<inputs, features, metric_features, ticaVars, ret>>

\* ---------------------------------------------------------- calculateTICA
\* The lag times tried.
LagTimes == 1..MaxLag

\* pyemma.coordinates.tica(arrays, lag=lag) can be fitted: there is data, all
\* of one dimension, and some trajectory is longer than the lag.
CanFit(arrays, lag) ==
    /\ arrays # <<>>
    /\ \A i, j \in DOMAIN arrays : arrays[i].cols = arrays[j].cols
    /\ \E i \in DOMAIN arrays : arrays[i].rows > lag

\* The numbers of components a fit on data of the given dimension may keep
\* (the library's decision: 95% of the kinetic variance).
TicaDims(cols) == 1..Min(cols, MaxDim)

\* The fitted model: its lag, the dimension of its input and of its output.
TicaModel(arrays, lag, dim) ==
    [lag |-> lag, cols |-> arrays[1].cols, dim |-> dim, ntrain |-> Len(arrays)]

\* The projection of one trajectory's array by a fitted model.
Project(model, array) ==
    [rows |-> array.rows, cols |-> model.dim, lag |-> model.lag]

\* all_tica[ligand].get_output(): one projection per pooled trajectory.
GetOutput(model, arrays) ==
    [i \in DOMAIN arrays |-> Project(model, arrays[i])]

\* Mutant: only the first trajectory's output is kept.
ConcatenateFirst(outputs) ==
    [rows |-> outputs[1].rows, cols |-> outputs[1].cols, lag |-> outputs[1].lag]

\* np.concatenate(outputs): the rows of all, the columns of each.
Concatenate(outputs) ==
    [rows |-> SumRows(outputs), cols |-> outputs[1].cols, lag |-> outputs[1].lag]

\* model.transform(arrays) accepts only data of the model's input dimension;
\* np.concatenate needs at least one array.
CanTransform(model, arrays) ==
    /\ arrays # <<>>
    /\ \A i \in DOMAIN arrays : arrays[i].cols = model.cols

\* for protein in self.data[ligand]: the keys in insertion order, which is
\* the order in which getFeaturesData visits the proteins.
DataProteins(ligand) ==
    SelectSeq(proteins, LAMBDA p : p \in DOMAIN data[ligand])

\* The dictionary tica_output[ligand] (tica_concatenated[ligand]) the loop
\* writes to: created empty only when the key is absent.
ProteinDict(dict, ligand) ==
    IF ligand \in DOMAIN dict THEN dict[ligand] ELSE <<>>

\* Mutant: a protein that has an entry keeps it.
StoreProjectionIfAbsent(dict, protein, value) ==
    IF protein \in DOMAIN dict THEN dict ELSE Put(dict, protein, value)

\* self.tica_output[ligand][protein] = ...: the entry is assigned whether or
\* not the protein already has one.
StoreProjection(dict, protein, value) == Put(dict, protein, value)

RECURSIVE TransformProteins(_, _, _, _)
\* The loop projecting each protein's arrays; st holds tica_output[ligand],
\* tica_concatenated[ligand] and the error raised, if any.
TransformProteins(ps, ligand, model, st) ==
    IF ps = <<>> \/ st.err # ErrNone THEN st
    ELSE LET p == Head(ps) IN
         IF ~CanTransform(model, data[ligand][p])
         THEN [st EXCEPT !.err = "LibraryError"]
         ELSE LET out == GetOutput(model, data[ligand][p])
              IN TransformProteins(Tail(ps), ligand, model,
                    [out |-> StoreProjection(st.out, p, out),
                     cat |-> StoreProjection(st.cat, p, Concatenate(out)),
                     err |-> ErrNone])

\* Mutant: shape[0] is recorded.
RecordedRows(ligand, concatenated) == concatenated.rows

\* self.ndims = self.all_tica_concatenated[ligand].shape[1]
RecordedDims(ligand, concatenated) == concatenated.cols

calculateTICA(ligand, lag_time) ==
    IF ligand \notin DOMAIN all_data
    THEN /\ lastCall' = Call("calculateTICA", ligand, "-", <<>>, lag_time, "KeyError")
         /\ UNCHANGED <<inputs, features, metric_features, data, all_data, ticaVars,
                        ncalls, ret>>
    ELSE IF ~CanFit(all_data[ligand], lag_time)
    THEN /\ lastCall' = Call("calculateTICA", ligand, "-", <<>>, lag_time, "LibraryError")
         /\ UNCHANGED <<inputs, features, metric_features, data, all_data, ticaVars,
                        ncalls, ret>>
    ELSE \E dim \in TicaDims(all_data[ligand][1].cols) :
         LET model == TicaModel(all_data[ligand], lag_time, dim)
             output == GetOutput(model, all_data[ligand])
             r == TransformProteins(DataProteins(ligand), ligand, model,
                                    [out |-> ProteinDict(tica_output, ligand),
                                     cat |-> ProteinDict(tica_concatenated, ligand),
                                     err |-> ErrNone])
         IN /\ ncalls < CallBudget
            /\ ncalls' = ncalls + 1
            /\ all_tica' = Put(all_tica, ligand, model)
            /\ all_tica_output' = Put(all_tica_output, ligand, output)
            /\ all_tica_concatenated' = Put(all_tica_concatenated, ligand, Concatenate(output))
            /\ ndims' = RecordedDims(ligand, Concatenate(output))
            /\ tica_output' = Put(tica_output, ligand, r.out)
            /\ tica_concatenated' = Put(tica_concatenated, ligand, r.cat)
            /\ lastCall' = [Call("calculateTICA", ligand, "-", <<>>, lag_time, r.err)
                              EXCEPT !.over = IF ligand \in DOMAIN all_tica
                                              THEN all_tica[ligand].lag ELSE 0]
            /\ UNCHANGED <<inputs, features, metric_features, data, all_data, ret>>

\* ------------------------------------------------------------ the TICA plots
\* def plotTICADistribution(self, ligand, max_tica=10)
DefaultMaxTica == 10
\* def plotTICADensity(self, ligand, ndims=4)
DefaultNdims == 4

\* The max_tica arguments tried.
MaxTicaArgs == {MaxDim, DefaultMaxTica}

\* The max_tica argument of plotFreeEnergy tried.
CascadeMaxTicaArgs == {MaxDim}

\* The ndims arguments tried.
NdimsArgs == {MaxDim, DefaultNdims}

\* Mutant: an absent ligand is plotted as no data instead of raising.
plotTICADistributionLenient(ligand, max_tica) ==
    IF ligand \notin DOMAIN all_tica_concatenated THEN ErrNone
    ELSE IF Min(all_tica_concatenated[ligand].cols, max_tica) # max_tica
         THEN "LibraryError"
    ELSE ErrNone

\* self.all_tica_concatenated[ligand][:, :max_tica] with max_tica labels: the
\* histograms need one label per column.
plotTICADistributionError(ligand, max_tica) ==
    IF ligand \notin DOMAIN all_tica_concatenated THEN "KeyError"
    ELSE IF Min(all_tica_concatenated[ligand].cols, max_tica) # max_tica
         THEN "LibraryError"
    ELSE ErrNone

plotTICADistribution(ligand, max_tica) ==
    /\ lastCall' = Call("plotTICADistribution", ligand, "-", <<>>, 0,
                        plotTICADistributionError(ligand, max_tica))
    /\ UNCHANGED <<inputs, features, metric_features, data, all_data, ticaVars,
                   ncalls, ret>>

\* for i in range(ndims): IC[i] = self.all_tica_concatenated[ligand][:, i];
\* then one subplot per pair of components (no pair: no subplot to make).
plotTICADensityError(ligand, n) ==
    IF ligand \notin DOMAIN all_tica_concatenated THEN "KeyError"
    ELSE IF n > all_tica_concatenated[ligand].cols THEN "IndexError"
    ELSE IF n < 2 THEN "LibraryError"
    ELSE ErrNone

plotTICADensity(ligand, n) ==
    /\ lastCall' = Call("plotTICADensity", ligand, "-", <<>>, 0,
                        plotTICADensityError(ligand, n))
    /\ UNCHANGED <<inputs, features, metric_features, data, all_data, ticaVars,
                   ncalls, ret>>

\* ---------------------------------------------------------- getMetricData
\* The list getMetricData returns: one 1-D array per trajectory level, the
\* rows of the table with that Ligand, Protein and Trajectory.
MetricData(ligand, protein, metric) ==
    [i \in 1..Len(TrajectoryLevels) |->
        [rows |-> TableRows(ligand, protein, TrajectoryLevels[i])]]

\* trajectory_data[metric]: the column must exist.
IsColumn(metric) == \E i \in DOMAIN Columns : Columns[i] = metric

\* The metric arguments tried.
MetricArgs == {Columns[i] : i \in DOMAIN Columns}

getMetricData(ligand, protein, metric) ==
    /\ IF IsColumn(metric) \/ TrajectoryLevels = <<>>
       THEN /\ ret' = MetricData(ligand, protein, metric)
            /\ lastCall' = Call("getMetricData", ligand, protein, <<>>, 0, ErrNone)
       ELSE /\ ret' = ret
            /\ lastCall' = Call("getMetricData", ligand, protein, <<>>, 0, "KeyError")
    /\ UNCHANGED <<inputs, features, metric_features, data, all_data, ticaVars, ncalls>>

\* --------------------------------------------------------- plotFreeEnergy
\* str(n) of the component numbers.
DecimalStr == <<"1", "2", "3", "4", "5", "6", "7", "8", "9", "10">>

\* 'IC' + str(i + 1)
ICName(i) == <<"IC", DecimalStr[i + 1]>>

\* int(X.replace('IC', '')) - 1
ICIndex(X) == (CHOOSE n \in DOMAIN DecimalStr : DecimalStr[n] = X[2]) - 1

\* The Protein dropdown: sorted(self.pele_analysis.proteins) + ['all'].
ProteinChoices == Proteins \cup {"all"}

\* getLigands: the Ligand dropdown offered for a Protein.
getLigands(Protein) ==
    {pl[2] : pl \in {c \in pele_combinations : Protein = "all" \/ c[1] = Protein}}

\* getCoordinates: the X and Y dropdowns, the metric columns and then
\* IC1 .. IC<max_tica>.
getCoordinates(max_tica) ==
    MetricColumns \o [i \in 1..max_tica |-> ICName(i - 1)]

\* One axis of _plotBindingEnergy: the error raised, or the length of the
\* coordinate array.
AxisData(Protein, Ligand, X) ==
    IF StartsWith(X, "IC")
    THEN IF Ligand \notin DOMAIN tica_concatenated
         THEN [err |-> "KeyError", len |-> 0]
         ELSE IF Protein \notin DOMAIN tica_concatenated[Ligand]
         THEN [err |-> "KeyError", len |-> 0]
         ELSE IF ICIndex(X) >= tica_concatenated[Ligand][Protein].cols
         THEN [err |-> "IndexError", len |-> 0]
         ELSE [err |-> ErrNone, len |-> tica_concatenated[Ligand][Protein].rows]
    ELSE IF MetricData(Ligand, Protein, X) = <<>>
         THEN [err |-> "LibraryError", len |-> 0]
         ELSE [err |-> ErrNone, len |-> SumRows(MetricData(Ligand, Protein, X))]

\* _plot_Nice_PES: np.min and np.histogram2d need two non-empty arrays of one
\* length.
CanRender(len1, len2) == len1 > 0 /\ len1 = len2

\* _plotBindingEnergy(Protein, Ligand, X, Y): the error it ends with.
plotBindingEnergyError(Protein, Ligand, X, Y) ==
    LET x == AxisData(Protein, Ligand, X)
        y == AxisData(Protein, Ligand, Y)
    IN IF x.err # ErrNone THEN x.err
       ELSE IF y.err # ErrNone THEN y.err
       ELSE IF ~CanRender(x.len, y.len) THEN "LibraryError"
       ELSE ErrNone

\* One pass through the cascade: a Protein, a Ligand offered for it, X and Y
\* among the offered coordinates.
plotFreeEnergy(max_tica) ==
    \E Protein \in ProteinChoices :
    \E Ligand \in getLigands(Protein) :
    \E ix, iy \in DOMAIN getCoordinates(max_tica) :
        /\ lastCall' = Call("plotFreeEnergy", "-", Protein, <<>>, 0,
                            plotBindingEnergyError(Protein, Ligand,
                                getCoordinates(max_tica)[ix], getCoordinates(max_tica)[iy]))
        /\ UNCHANGED <<inputs, features, metric_features, data, all_data, ticaVars,
                       ncalls, ret>>

\* ------------------------------------------------------------ the machine
Next ==
    \/ \E feature \in FeatureArgs, ligand \in Ligands : addFeature(feature, ligand)
    \/ \E ligand \in Ligands : getFeaturesData(ligand)
    \/ \E ligand \in Ligands, lag_time \in LagTimes : calculateTICA(ligand, lag_time)
    \/ \E ligand \in Ligands, max_tica \in MaxTicaArgs : plotTICADistribution(ligand, max_tica)
    \/ \E ligand \in Ligands, n \in NdimsArgs : plotTICADensity(ligand, n)
    \/ \E ligand \in Ligands, protein \in Proteins, metric \in MetricArgs :
           getMetricData(ligand, protein, metric)
    \/ \E max_tica \in CascadeMaxTicaArgs : plotFreeEnergy(max_tica)

Spec == Init /\ [][Next]_vars

\* ============================================================== properties
RECURSIVE TotalFrames(_)
\* The frames of a list of trajectory files together.
TotalFrames(files) ==
    IF files = <<>> THEN 0 ELSE Head(files) + TotalFrames(Tail(files))

\* The call made last is op on the ligand.
Called(op, ligand) == lastCall.op = op /\ lastCall.ligand = ligand

\* The mappings calculateTICA writes, restricted to one ligand.
TicaOf(ligand) ==
    <<IF ligand \in DOMAIN all_tica THEN <<all_tica[ligand]>> ELSE <<>>,
      IF ligand \in DOMAIN all_tica_output THEN <<all_tica_output[ligand]>> ELSE <<>>,
      IF ligand \in DOMAIN all_tica_concatenated
          THEN <<all_tica_concatenated[ligand]>> ELSE <<>>,
      IF ligand \in DOMAIN tica_output THEN <<tica_output[ligand]>> ELSE <<>>,
      IF ligand \in DOMAIN tica_concatenated THEN <<tica_concatenated[ligand]>> ELSE <<>> >>

\* C1: when getFeaturesData(ligand) returns after addFeature('metrics',
\* ligand), every feature array data[ligand][protein][t] has a metric array
\* metric_features[ligand][protein][t] of the same row count; and when some
\* trajectory file and its metric array differ in row count, the call raises.
C1_RowsAlignedOrRaises ==
    \A l \in Ligands :
        (Called("getFeaturesData", l) /\ l \in DOMAIN metric_features) =>
            /\ lastCall.err = ErrNone =>
                   \A p \in DOMAIN data[l] : \A t \in DOMAIN data[l][p] :
                       /\ t \in DOMAIN metric_features[l][p]
                       /\ data[l][p][t].rows = metric_features[l][p][t].rows
            /\ (\E p \in ProteinsOf(pele_combinations, l) :
                    \E t \in DOMAIN trajectories[<<p, l>>] :
                        /\ t \in DOMAIN metric_features[l][p]
                        /\ trajectories[<<p, l>>][t] # metric_features[l][p][t].rows)
               => lastCall.err # ErrNone

\* C1 witness: getFeaturesData returned for a ligand with metric features,
\* with the metric columns concatenated to every protein's arrays.
C1_Witness ==
    \E l \in Ligands :
        /\ Called("getFeaturesData", l) /\ lastCall.err = ErrNone
        /\ l \in DOMAIN metric_features
        /\ DOMAIN data[l] = Proteins
        /\ \A p \in Proteins : \A t \in DOMAIN data[l][p] :
               data[l][p][t].cols = FeatureCols(l) + Len(MetricColumns)

\* C2: when calculateTICA(ligand, lag) returns, every protein loaded for the
\* ligand has a tica_concatenated[ligand][protein] with as many rows as the
\* pair's trajectory files have frames together, and ndims columns.
C2_ConcatenatedShape ==
    \A l \in Ligands :
        (Called("calculateTICA", l) /\ lastCall.err = ErrNone) =>
            \A p \in DOMAIN data[l] :
                /\ p \in DOMAIN tica_concatenated[l]
                /\ tica_concatenated[l][p].rows = TotalFrames(trajectories[<<p, l>>])
                /\ tica_concatenated[l][p].cols = ndims

\* C2 witness: the fit of a ligand with two proteins of MaxTraj trajectories
\* each has returned.
C2_Witness ==
    \E l \in Ligands :
        /\ Called("calculateTICA", l) /\ lastCall.err = ErrNone
        /\ DOMAIN tica_concatenated[l] = Proteins
        /\ \A p \in Proteins : tica_concatenated[l][p].rows = MaxTraj * Frames

\* Every TICA result recorded for the ligand was made by a fit of the given
\* lag and has the dimension of the fitted model, which is ndims.
FromFit(ligand, lag) ==
    /\ all_tica[ligand].lag = lag
    /\ ndims = all_tica[ligand].dim
    /\ \A i \in DOMAIN all_tica_output[ligand] :
           /\ all_tica_output[ligand][i].lag = lag
           /\ all_tica_output[ligand][i].cols = ndims
    /\ all_tica_concatenated[ligand].lag = lag
    /\ all_tica_concatenated[ligand].cols = ndims
    /\ DOMAIN tica_output[ligand] = DOMAIN tica_concatenated[ligand]
    /\ \A p \in DOMAIN tica_output[ligand] :
           /\ \A i \in DOMAIN tica_output[ligand][p] :
                  /\ tica_output[ligand][p][i].lag = lag
                  /\ tica_output[ligand][p][i].cols = ndims
           /\ tica_concatenated[ligand][p].lag = lag
           /\ tica_concatenated[ligand][p].cols = ndims

\* C3: when calculateTICA returns for a ligand that had a fit of another lag
\* time, ndims and every TICA result of the ligand are of the new fit.
C3_SecondFitOnly ==
    \A l \in Ligands :
        (/\ Called("calculateTICA", l) /\ lastCall.err = ErrNone
         /\ lastCall.over # 0 /\ lastCall.over # lastCall.num)
        => FromFit(l, lastCall.num)

\* C3 witness: a second fit, of another lag time, has returned for a ligand
\* with results for two proteins.
C3_Witness ==
    \E l \in Ligands :
        /\ Called("calculateTICA", l) /\ lastCall.err = ErrNone
        /\ lastCall.over # 0 /\ lastCall.over # lastCall.num
        /\ DOMAIN tica_output[l] = Proteins

\* C4: getMetricData(ligand, protein, metric) returns one array per
\* trajectory the table holds for the pair, in trajectory order, each as long
\* as that trajectory's rows, and none for a trajectory the pair does not have.
C4_OneArrayPerPairTrajectory ==
    \A l \in Ligands, p \in Proteins :
        (/\ Called("getMetricData", l) /\ lastCall.protein = p
         /\ lastCall.err = ErrNone /\ <<p, l>> \in pele_combinations)
        => /\ Len(ret) = Len(PairTrajectories(l, p))
           /\ \A i \in DOMAIN ret :
                  ret[i].rows = TableRows(l, p, PairTrajectories(l, p)[i])

\* The feature names addFeature accepts, according to its message.
AcceptedFeatures == {"positions", "metrics"}

\* C5: addFeature with a feature other than 'positions' and 'metrics' raises
\* ValueError with a message made of the rejected value and the accepted
\* values, and leaves the featurizers and metric_features as they were.
C5_UnsupportedFeatureRejected ==
    [][(lastCall'.op = "addFeature" /\ lastCall'.name[1] \notin AcceptedFeatures) =>
          /\ lastCall'.err = "ValueError"
          /\ {lastCall'.msg[i] : i \in DOMAIN lastCall'.msg}
                 = {lastCall'.name[1]} \cup AcceptedFeatures
          /\ features' = features
          /\ metric_features' = metric_features]_vars

\* C5 witness: addFeature('velocities', ligand) has raised ValueError on an
\* object that has metric features.
C5_Witness ==
    /\ lastCall.op = "addFeature" /\ lastCall.name = <<"velocities">>
    /\ lastCall.err = "ValueError"
    /\ DOMAIN metric_features # {}

\* C6: getFeaturesData(ligand) (no metric features registered) completes and
\* data[ligand] has an entry for exactly the proteins combined with the ligand
\* in pele_combinations.
C6_LoadsAssociatedProteins ==
    \A l \in Ligands :
        (Called("getFeaturesData", l) /\ l \notin DOMAIN metric_features) =>
            /\ lastCall.err = ErrNone
            /\ DOMAIN data[l] = ProteinsOf(pele_combinations, l)

\* C7: a second addFeature('metrics', ligand) leaves metric_features[ligand]
\* as the first left it, and a second getFeaturesData(ligand) right after a
\* first leaves data[ligand] and all_data[ligand] as the first left them.
C7_ReinvocationOverwrites ==
    [][\A l \in Ligands :
          /\ (/\ lastCall'.op = "addFeature" /\ lastCall'.ligand = l
              /\ lastCall'.name = <<"metrics">> /\ l \in DOMAIN metric_features)
             => metric_features'[l] = metric_features[l]
          /\ (/\ lastCall'.op = "getFeaturesData" /\ lastCall'.ligand = l
              /\ lastCall'.err = ErrNone
              /\ Called("getFeaturesData", l) /\ lastCall.err = ErrNone)
             => (data'[l] = data[l] /\ all_data'[l] = all_data[l])]_vars

\* C8: calculateTICA for a ligand without pooled data, and either TICA plot
\* for a ligand without a pooled TICA output, raise KeyError and leave all_tica,
\* all_tica_output, all_tica_concatenated, tica_output, tica_concatenated and
\* ndims as they were.
C8_OrderEnforcedByKeys ==
    [][\A l \in Ligands :
          /\ (/\ lastCall'.op = "calculateTICA" /\ lastCall'.ligand = l
              /\ l \notin DOMAIN all_data)
             => (lastCall'.err = "KeyError" /\ ticaVars' = ticaVars)
          /\ (/\ lastCall'.op \in {"plotTICADistribution", "plotTICADensity"}
              /\ lastCall'.ligand = l
              /\ l \notin DOMAIN all_tica_concatenated)
             => (lastCall'.err = "KeyError" /\ ticaVars' = ticaVars)]_vars

\* C8 witness: plotTICADistribution has raised KeyError for a ligand whose
\* data is loaded and that has no fit, on an object with a fit of another
\* ligand.
C8_Witness ==
    \E l \in Ligands :
        /\ Called("plotTICADistribution", l) /\ lastCall.err = "KeyError"
        /\ l \in DOMAIN all_data
        /\ l \notin DOMAIN all_tica_concatenated
        /\ DOMAIN all_tica_concatenated # {}

\* getFeaturesData and calculateTICA have run for every ligand: each has a
\* projection for every protein it is combined with.
AllFitted ==
    \A l \in Ligands :
        /\ l \in DOMAIN all_tica_concatenated
        /\ l \in DOMAIN tica_concatenated
        /\ DOMAIN tica_concatenated[l] = ProteinsOf(pele_combinations, l)

\* C9: once every ligand is loaded and fitted, no selection the cascade of
\* plotFreeEnergy offers ends in a KeyError or an IndexError.
C9_EverySelectionRenders ==
    (lastCall.op = "plotFreeEnergy" /\ AllFitted)
        => lastCall.err \notin {"KeyError", "IndexError"}

\* C10: for every fitted ligand, ndims is the column count of its
\* all_tica_concatenated and of each of its tica_concatenated[ligand][protein].
C10_NdimsOfEveryLigand ==
    \A l \in DOMAIN all_tica_concatenated :
        /\ ndims = all_tica_concatenated[l].cols
        /\ \A p \in DOMAIN tica_concatenated[l] : ndims = tica_concatenated[l][p].cols

\* C10 as amended: calculateTICA(ligand, lag) leaves what is recorded for the
\* other ligands as it was; a call that fits leaves ndims equal to the column
\* count of all_tica_concatenated of the ligand it fitted, and a call that
\* returns leaves it equal to the column count of every tica_concatenated
\* entry of that ligand.
C10_LigandScopedNdimsOfLastFit ==
    [][\A l \in Ligands :
          (lastCall'.op = "calculateTICA" /\ lastCall'.ligand = l) =>
              /\ \A b \in Ligands \ {l} : TicaOf(b)' = TicaOf(b)
              /\ ncalls' # ncalls => ndims' = all_tica_concatenated'[l].cols
              /\ lastCall'.err = ErrNone =>
                     /\ ndims' = all_tica_concatenated'[l].cols
                     /\ \A p \in DOMAIN tica_concatenated'[l] :
                            ndims' = tica_concatenated'[l][p].cols]_vars

\* C10 witness: a fit has returned while another ligand holds a fit of
\* another dimension.
C10_Witness ==
    \E l \in Ligands, b \in Ligands :
        /\ b # l
        /\ Called("calculateTICA", l) /\ lastCall.err = ErrNone
        /\ ndims = all_tica_concatenated[l].cols
        /\ b \in DOMAIN all_tica_concatenated
        /\ all_tica_concatenated[b].cols # ndims

====
